---- MODULE Spec2Model ----
(***************************************************************************)
(* Model of haystack_experimental/core/pipeline/async_pipeline.py:         *)
(* AsyncPipeline.run (the main scheduling loop), AsyncPipeline._run_subgraph*)
(* (the cycle sub-scheduler), AsyncPipeline._run_component and the helper  *)
(* run_async_pipeline.  The helpers inherited from                         *)
(* haystack.core.pipeline.base (readiness, distribution, candidate         *)
(* selection, stuck predicate) are modelled after spec.md 4.3-4.5.2.       *)
(***************************************************************************)
EXTENDS Integers, Sequences, FiniteSets, TLC

VARIABLES
    graph,                      \* self.graph: the pipeline being run
    max_runs_per_component,     \* self._max_runs_per_component
    pc,                         \* position of the generator
    components_inputs,          \* the Input Store
    visits,                     \* graph.nodes[name]["visits"]
    run_queue,                  \* run_queue of AsyncPipeline.run
    waiting_queue,              \* waiting_queue of AsyncPipeline.run
    before_last_waiting_queue,  \* witness n-2 of AsyncPipeline.run
    last_waiting_queue,         \* witness n-1 of AsyncPipeline.run
    final_outputs,              \* final_outputs of AsyncPipeline.run
    sub,                        \* the frame of _run_subgraph
    cur,                        \* the invocation suspended at a yield
    stream,                     \* the items yielded to the consumer
    invoked,                    \* history of component invocations
    warnings,                   \* RuntimeWarnings emitted, by origin
    err,                        \* the error raised to the consumer
    result,                     \* return value of run_async_pipeline
    mutated,                    \* positions of the items the consumer mutated in place
    data,                       \* the data argument of run: (component, socket) pairs
    previous_visits,            \* the visits counters when run was called
    requested,                  \* number of items the consumer has asked for
    running                     \* the components being executed

vars == <<graph, max_runs_per_component, pc, components_inputs, visits,
          run_queue, waiting_queue, before_last_waiting_queue,
          last_waiting_queue, final_outputs, sub, cur, stream, invoked,
          warnings, err, result, mutated, data, previous_visits, requested,
          running>>

(***************************************************************************)
(* Bounds of the model.                                                    *)
(***************************************************************************)
MaxRunsCfg == 3

\* how many of the items it received the consumer mutates in place
MaxMutations == 1

(***************************************************************************)
(* Python dicts and lists.                                                 *)
(***************************************************************************)
EmptyDict == [k \in {} |-> 0]

Put(d, k, v) == [x \in (DOMAIN d) \cup {k} |-> IF x = k THEN v ELSE d[x]]

Del(d, ks) == [x \in (DOMAIN d) \ ks |-> d[x]]

InSeq(x, q) == \E i \in DOMAIN q : q[i] = x

Remove(q, x) == SelectSeq(q, LAMBDA y : y # x)

Names(q) == {q[i] : i \in DOMAIN q}

Last(q) == q[Len(q)]

Index(q, x) == CHOOSE i \in DOMAIN q : q[i] = x /\ \A j \in 1..(i - 1) : q[j] # x

NoneSet == [some |-> FALSE, s |-> {}]

SomeSet(S) == [some |-> TRUE, s |-> S]

(***************************************************************************)
(* The graphs.  A socket value is [src, n]: who produced it and at which   *)
(* of the producer's invocations.                                          *)
(***************************************************************************)
InSock(senders, variadic, mandatory) ==
    [senders |-> senders, is_variadic |-> variadic, is_mandatory |-> mandatory]

Edge(f, fs, t, ts) == [from |-> f, fs |-> fs, to |-> t, ts |-> ts]

UserValue == [src |-> "user", n |-> 0]

DefaultValue == [src |-> "default", n |-> 0]

\* hello -> hello2 (docstring of AsyncPipeline.run)
LinearGraph ==
    [comps |-> {"hello", "hello2"},
     ins |-> [c \in {"hello", "hello2"} |->
                IF c = "hello" THEN [word |-> InSock({}, FALSE, TRUE)]
                ELSE [word |-> InSock({"hello"}, FALSE, TRUE)]],
     outs |-> [c \in {"hello", "hello2"} |->
                IF c = "hello" THEN [output |-> {"hello2"}]
                ELSE [output |-> {}]],
     edges |-> <<Edge("hello", "output", "hello2", "word")>>,
     topo |-> <<"hello", "hello2">>,
     cycles |-> [c \in {"hello", "hello2"} |-> <<>>],
     greedy |-> {},
     data |-> [c \in {"hello", "hello2"} |->
                IF c = "hello" THEN {"word"} ELSE {}],
     behaviours |-> [c \in {"hello", "hello2"} |-> {{"output"}}]]

\* a router r with two conditional branches x, y joined by z; z.b has a default
BranchGraph ==
    [comps |-> {"r", "x", "y", "z"},
     ins |-> [c \in {"r", "x", "y", "z"} |->
                CASE c = "r" -> [q |-> InSock({}, FALSE, TRUE)]
                  [] c = "x" -> [i |-> InSock({"r"}, FALSE, TRUE)]
                  [] c = "y" -> [i |-> InSock({"r"}, FALSE, TRUE)]
                  [] c = "z" -> [a |-> InSock({"x"}, FALSE, TRUE),
                                 b |-> InSock({"y"}, FALSE, FALSE)]],
     outs |-> [c \in {"r", "x", "y", "z"} |->
                CASE c = "r" -> [o1 |-> {"x"}, o2 |-> {"y"}]
                  [] c = "x" -> [out |-> {"z"}, log |-> {}]
                  [] c = "y" -> [out |-> {"z"}, log |-> {}]
                  [] c = "z" -> [res |-> {}]],
     edges |-> <<Edge("r", "o1", "x", "i"), Edge("r", "o2", "y", "i"),
                 Edge("x", "out", "z", "a"), Edge("y", "out", "z", "b")>>,
     topo |-> <<"r", "x", "y", "z">>,
     cycles |-> [c \in {"r", "x", "y", "z"} |-> <<>>],
     greedy |-> {},
     data |-> [c \in {"r", "x", "y", "z"} |-> IF c = "r" THEN {"q"} ELSE {}],
     behaviours |-> [c \in {"r", "x", "y", "z"} |->
                CASE c = "r" -> {{"o1", "o2"}, {"o1"}, {"o2"}, {}}
                  [] c = "x" -> {{"out", "log"}, {"out"}}
                  [] c = "y" -> {{"out", "log"}}
                  [] c = "z" -> {{"res"}}]]

\* a and b feed the lazy variadic socket j.in
JoinGraph ==
    [comps |-> {"a", "b", "j"},
     ins |-> [c \in {"a", "b", "j"} |->
                CASE c = "a" -> [x |-> InSock({}, FALSE, TRUE)]
                  [] c = "b" -> [x |-> InSock({}, FALSE, TRUE)]
                  [] c = "j" -> [in |-> InSock({"a", "b"}, TRUE, TRUE)]],
     outs |-> [c \in {"a", "b", "j"} |->
                CASE c = "a" -> [out |-> {"j"}]
                  [] c = "b" -> [out |-> {"j"}]
                  [] c = "j" -> [out |-> {}]],
     edges |-> <<Edge("a", "out", "j", "in"), Edge("b", "out", "j", "in")>>,
     topo |-> <<"a", "b", "j">>,
     cycles |-> [c \in {"a", "b", "j"} |-> <<>>],
     greedy |-> {},
     data |-> [c \in {"a", "b", "j"} |-> IF c = "j" THEN {} ELSE {"x"}],
     behaviours |-> [c \in {"a", "b", "j"} |->
                CASE c = "a" -> {{"out"}, {}}
                  [] c = "b" -> {{"out"}}
                  [] c = "j" -> {{"out"}}]]

\* a -> b -> a, b.done -> c; a.fb has a default (the breakable edge)
CycleGraph ==
    [comps |-> {"a", "b", "c"},
     ins |-> [c \in {"a", "b", "c"} |->
                CASE c = "a" -> [x |-> InSock({}, FALSE, TRUE),
                                 fb |-> InSock({"b"}, FALSE, FALSE)]
                  [] c = "b" -> [in |-> InSock({"a"}, FALSE, TRUE)]
                  [] c = "c" -> [in |-> InSock({"b"}, FALSE, TRUE)]],
     outs |-> [c \in {"a", "b", "c"} |->
                CASE c = "a" -> [out |-> {"b"}]
                  [] c = "b" -> [loop |-> {"a"}, done |-> {"c"}, note |-> {}]
                  [] c = "c" -> [out |-> {}]],
     edges |-> <<Edge("a", "out", "b", "in"), Edge("b", "loop", "a", "fb"),
                 Edge("b", "done", "c", "in")>>,
     topo |-> <<"a", "b", "c">>,
     cycles |-> [c \in {"a", "b", "c"} |->
                IF c = "c" THEN <<>> ELSE << <<"a", "b">> >>],
     greedy |-> {},
     data |-> [c \in {"a", "b", "c"} |-> IF c = "a" THEN {"x"} ELSE {}],
     behaviours |-> [c \in {"a", "b", "c"} |->
                CASE c = "a" -> {{"out"}}
                  [] c = "b" -> {{"loop"}, {"loop", "note"}, {"done"},
                                 {"done", "note"}, {}}
                  [] c = "c" -> {{"out"}}]]

\* a self-looping breakable cycle
SelfLoopGraph ==
    [comps |-> {"s"},
     ins |-> [c \in {"s"} |-> [x |-> InSock({}, FALSE, TRUE),
                               fb |-> InSock({"s"}, FALSE, FALSE)]],
     outs |-> [c \in {"s"} |-> [loop |-> {"s"}, out |-> {}]],
     edges |-> <<Edge("s", "loop", "s", "fb")>>,
     topo |-> <<"s">>,
     cycles |-> [c \in {"s"} |-> << <<"s">> >>],
     greedy |-> {},
     data |-> [c \in {"s"} |-> {"x"}],
     behaviours |-> [c \in {"s"} |-> {{"loop", "out"}, {"loop"}, {"out"},
                                       {"loop", "undeclared"}}]]

\* three producers feed the greedy variadic socket g.value
GreedyGraph ==
    [comps |-> {"u1", "u2", "u3", "g"},
     ins |-> [c \in {"u1", "u2", "u3", "g"} |->
                IF c = "g"
                THEN [value |-> InSock({"u1", "u2", "u3"}, TRUE, TRUE)]
                ELSE [x |-> InSock({}, FALSE, TRUE)]],
     outs |-> [c \in {"u1", "u2", "u3", "g"} |->
                IF c = "g" THEN [out |-> {}] ELSE [out |-> {"g"}]],
     edges |-> <<Edge("u1", "out", "g", "value"), Edge("u2", "out", "g", "value"),
                 Edge("u3", "out", "g", "value")>>,
     topo |-> <<"u1", "u2", "u3", "g">>,
     cycles |-> [c \in {"u1", "u2", "u3", "g"} |-> <<>>],
     greedy |-> {"g"},
     data |-> [c \in {"u1", "u2", "u3", "g"} |-> IF c = "g" THEN {} ELSE {"x"}],
     behaviours |-> [c \in {"u1", "u2", "u3", "g"} |->
                      IF c = "u3" THEN {{"out"}, {"out", "undeclared"}}
                      ELSE {{"out"}}]]

\* r -> x -> j.in (lazy variadic) -> z: a skipped branch in front of a joiner
LazyChainGraph ==
    [comps |-> {"r", "x", "j", "z"},
     ins |-> [c \in {"r", "x", "j", "z"} |->
                CASE c = "r" -> [q |-> InSock({}, FALSE, TRUE)]
                  [] c = "x" -> [i |-> InSock({"r"}, FALSE, TRUE)]
                  [] c = "j" -> [in |-> InSock({"x"}, TRUE, TRUE)]
                  [] c = "z" -> [a |-> InSock({"j"}, FALSE, TRUE)]],
     outs |-> [c \in {"r", "x", "j", "z"} |->
                CASE c = "r" -> [o1 |-> {"x"}]
                  [] c = "x" -> [out |-> {"j"}]
                  [] c = "j" -> [out |-> {"z"}]
                  [] c = "z" -> [res |-> {}]],
     edges |-> <<Edge("r", "o1", "x", "i"), Edge("x", "out", "j", "in"),
                 Edge("j", "out", "z", "a")>>,
     topo |-> <<"r", "x", "j", "z">>,
     cycles |-> [c \in {"r", "x", "j", "z"} |-> <<>>],
     greedy |-> {},
     data |-> [c \in {"r", "x", "j", "z"} |-> IF c = "r" THEN {"q"} ELSE {}],
     behaviours |-> [c \in {"r", "x", "j", "z"} |->
                IF c = "r" THEN {{"o1"}, {}}
                ELSE IF c = "z" THEN {{"res"}} ELSE {{"out"}}]]

\* src -> bj (greedy joiner) -> j (lazy variadic) -> w -> bj, src -> k
LazyCycleGraph ==
    [comps |-> {"src", "bj", "j", "w", "k"},
     ins |-> [c \in {"src", "bj", "j", "w", "k"} |->
                CASE c = "src" -> [q |-> InSock({}, FALSE, TRUE)]
                  [] c = "bj" -> [value |-> InSock({"src", "w"}, TRUE, TRUE)]
                  [] c = "j" -> [in |-> InSock({"bj"}, TRUE, TRUE)]
                  [] c = "w" -> [in |-> InSock({"j"}, FALSE, TRUE)]
                  [] c = "k" -> [in |-> InSock({"src"}, FALSE, TRUE)]],
     outs |-> [c \in {"src", "bj", "j", "w", "k"} |->
                CASE c = "src" -> [out |-> {"bj", "k"}]
                  [] c = "bj" -> [out |-> {"j"}]
                  [] c = "j" -> [out |-> {"w"}]
                  [] c = "w" -> [loop |-> {"bj"}, done |-> {}]
                  [] c = "k" -> [out |-> {}]],
     edges |-> <<Edge("src", "out", "bj", "value"), Edge("src", "out", "k", "in"),
                 Edge("bj", "out", "j", "in"), Edge("j", "out", "w", "in"),
                 Edge("w", "loop", "bj", "value")>>,
     topo |-> <<"src", "bj", "j", "w", "k">>,
     cycles |-> [c \in {"src", "bj", "j", "w", "k"} |->
                IF c \in {"bj", "j", "w"} THEN << <<"bj", "j", "w">> >> ELSE <<>>],
     greedy |-> {"bj"},
     data |-> [c \in {"src", "bj", "j", "w", "k"} |->
                IF c = "src" THEN {"q"} ELSE {}],
     behaviours |-> [c \in {"src", "bj", "j", "w", "k"} |->
                IF c = "w" THEN {{"loop"}, {"done"}} ELSE {{"out"}}]]

\* the join with its producers in the other topological order
JoinGraphBA == [JoinGraph EXCEPT !.topo = <<"b", "a", "j">>]

\* the cycle a -> b -> a listed from b, so that the sub-scheduler is entered
\* at the second member of the list; b may emit done while it keeps looping
CycleGraphBA ==
    [CycleGraph EXCEPT
        !.cycles = [c \in {"a", "b", "c"} |->
                      IF c = "c" THEN <<>> ELSE << <<"b", "a">> >>],
        !.behaviours = [c \in {"a", "b", "c"} |->
                      IF c = "b" THEN {{"loop", "done"}, {"loop"}, {"done"},
                                       {"note"}}
                      ELSE {{"out"}}]]

\* one component whose sockets have no sender: u is mandatory, o, v and w
\* have defaults, v and w are variadic; the user provides u and w
DefaultsGraph ==
    [comps |-> {"d"},
     ins |-> [c \in {"d"} |-> [u |-> InSock({}, FALSE, TRUE),
                               o |-> InSock({}, FALSE, FALSE),
                               v |-> InSock({}, TRUE, FALSE),
                               w |-> InSock({}, TRUE, FALSE)]],
     outs |-> [c \in {"d"} |-> [out |-> {}]],
     edges |-> <<>>,
     topo |-> <<"d">>,
     cycles |-> [c \in {"d"} |-> <<>>],
     greedy |-> {},
     data |-> [c \in {"d"} |-> {"u", "w"}],
     behaviours |-> [c \in {"d"} |-> {{"out"}}]]

\* the cycle p -> q -> p whose member q also needs q.m from o, outside the
\* cycle, which may emit nothing
StuckCycleGraph ==
    [comps |-> {"o", "p", "q"},
     ins |-> [c \in {"o", "p", "q"} |->
                CASE c = "o" -> [x |-> InSock({}, FALSE, TRUE)]
                  [] c = "p" -> [x |-> InSock({}, FALSE, TRUE),
                                 fb |-> InSock({"q"}, FALSE, FALSE)]
                  [] c = "q" -> [in |-> InSock({"p"}, FALSE, TRUE),
                                 m |-> InSock({"o"}, FALSE, TRUE)]],
     outs |-> [c \in {"o", "p", "q"} |->
                CASE c = "o" -> [out |-> {"q"}]
                  [] c = "p" -> [out |-> {"q"}]
                  [] c = "q" -> [loop |-> {"p"}, done |-> {}]],
     edges |-> <<Edge("o", "out", "q", "m"), Edge("p", "out", "q", "in"),
                 Edge("q", "loop", "p", "fb")>>,
     topo |-> <<"o", "p", "q">>,
     cycles |-> [c \in {"o", "p", "q"} |->
                IF c = "o" THEN <<>> ELSE << <<"p", "q">> >>],
     greedy |-> {},
     data |-> [c \in {"o", "p", "q"} |-> IF c = "q" THEN {} ELSE {"x"}],
     behaviours |-> [c \in {"o", "p", "q"} |->
                CASE c = "o" -> {{"out"}, {}}
                  [] c = "p" -> {{"out"}}
                  [] c = "q" -> {{"done"}}]]

\* a self-looping cycle whose member has variadic sockets without senders:
\* x given by the user, d left to its default
VariadicLoopGraph ==
    [comps |-> {"r"},
     ins |-> [c \in {"r"} |-> [x |-> InSock({}, TRUE, TRUE),
                               d |-> InSock({}, TRUE, FALSE),
                               fb |-> InSock({"r"}, FALSE, FALSE)]],
     outs |-> [c \in {"r"} |-> [loop |-> {"r"}, out |-> {}]],
     edges |-> <<Edge("r", "loop", "r", "fb")>>,
     topo |-> <<"r">>,
     cycles |-> [c \in {"r"} |-> << <<"r">> >>],
     greedy |-> {},
     data |-> [c \in {"r"} |-> {"x"}],
     behaviours |-> [c \in {"r"} |-> {{"loop"}, {"out"}}]]

Graphs == <<LinearGraph, BranchGraph, JoinGraph, CycleGraph, SelfLoopGraph,
            GreedyGraph, LazyChainGraph, LazyCycleGraph,
            JoinGraphBA, CycleGraphBA, DefaultsGraph, StuckCycleGraph,
            VariadicLoopGraph>>

G == graph

Comps == G.comps

(***************************************************************************)
(* Helpers of haystack.core.pipeline.base used by the scheduler.           *)
(***************************************************************************)
\* _is_lazy_variadic: has a variadic input socket and is not greedy
is_lazy_variadic(c) ==
    /\ \E s \in DOMAIN G.ins[c] : G.ins[c][s].is_variadic
    /\ c \notin G.greedy

\* _has_all_inputs_with_defaults: no input socket is mandatory
has_all_inputs_with_defaults(c) ==
    \A s \in DOMAIN G.ins[c] : ~G.ins[c][s].is_mandatory

\* _component_has_enough_inputs_to_run: every input socket holds an entry
component_has_enough_inputs_to_run(c, inp) ==
    DOMAIN inp[c] = DOMAIN G.ins[c]

\* _add_missing_input_defaults: fill the absent non-mandatory sockets
add_missing_input_defaults(c, inp) ==
    [inp EXCEPT ![c] =
        [s \in (DOMAIN inp[c]) \cup {t \in DOMAIN G.ins[c] : ~G.ins[c][t].is_mandatory} |->
            IF s \in DOMAIN inp[c] THEN inp[c][s] ELSE DefaultValue]]

\* _enqueue_component
enqueue_component_rq(c, rq) == IF InSeq(c, rq) THEN rq ELSE Append(rq, c)

\* _enqueue_waiting_component
enqueue_waiting_component(c, wq) == IF InSeq(c, wq) THEN wq ELSE Append(wq, c)

\* _dequeue_waiting_component, and each queue's half of _dequeue_component
dequeue_waiting_component(c, wq) == Remove(wq, c)

RemoveAll(q, S) == SelectSeq(q, LAMBDA y : y \notin S)

\* _find_receivers_from: the outgoing edges of c, in edge order
find_receivers_from(c) == SelectSeq(G.edges, LAMBDA e : e.from = c)

\* _find_components_that_will_receive_no_input: the receivers of the output
\* sockets absent from res, except those whose variadic socket fed by c
\* already holds some input
find_components_that_will_receive_no_input(c, res, inp) ==
    {r \in Comps :
        /\ \E s \in DOMAIN G.outs[c] : s \notin DOMAIN res /\ r \in G.outs[c][s]
        /\ ~\E t \in DOMAIN G.ins[r] :
              /\ c \in G.ins[r][t].senders
              /\ G.ins[r][t].is_variadic
              /\ t \in DOMAIN inp[r]
              /\ Len(inp[r][t]) > 0}

\* one receiver of _distribute_output
distribute_one(e, res, st) ==
    IF e.fs \notin DOMAIN res THEN st
    ELSE
      LET sock == G.ins[e.to][e.ts]
          old == st.inp[e.to]
          new == IF sock.is_variadic
                 THEN Put(old, e.ts,
                          Append(IF e.ts \in DOMAIN old THEN old[e.ts] ELSE <<>>,
                                 res[e.fs]))
                 ELSE Put(old, e.ts, res[e.fs])
          isg == e.to \in G.greedy
          rq1 == IF sock.is_variadic /\ isg
                 THEN <<e.to>> \o Remove(st.rq, e.to) ELSE st.rq
          wq1 == IF sock.is_variadic
                 THEN (IF isg THEN Remove(st.wq, e.to)
                       ELSE enqueue_waiting_component(e.to, st.wq))
                 ELSE st.wq
          rq2 == IF ~InSeq(e.to, wq1) /\ ~InSeq(e.to, rq1)
                 THEN Append(rq1, e.to) ELSE rq1
      IN [inp |-> [st.inp EXCEPT ![e.to] = new], rq |-> rq2, wq |-> wq1,
          sent |-> st.sent \cup {e.fs}]

RECURSIVE distribute_loop(_, _, _)
distribute_loop(es, res, st) ==
    IF es = <<>> THEN st
    ELSE distribute_loop(Tail(es), res, distribute_one(Head(es), res, st))

\* _distribute_output: write res into the receivers' sockets, update the
\* queues, return what was sent to nobody
distribute_output(receivers, res, inp, rq, wq) ==
    LET st == distribute_loop(receivers, res,
                              [inp |-> inp, rq |-> rq, wq |-> wq, sent |-> {}])
    IN [inp |-> st.inp, rq |-> st.rq, wq |-> st.wq, res |-> Del(res, st.sent)]

\* _find_next_runnable_lazy_variadic_or_default_component
find_next_runnable_lazy_variadic_or_default_component(wq) ==
    LET ok == SelectSeq(wq, LAMBDA c : is_lazy_variadic(c)
                                        \/ has_all_inputs_with_defaults(c))
    IN IF ok # <<>> THEN Head(ok) ELSE Last(wq)

\* _find_next_runnable_component
find_next_runnable_component(inp, wq) ==
    LET all_lazy_variadic == \A i \in DOMAIN wq : is_lazy_variadic(wq[i])
        all_with_default_inputs ==
            \A i \in DOMAIN wq : has_all_inputs_with_defaults(wq[i])
        filtered == SelectSeq(wq, LAMBDA c : ~is_lazy_variadic(c)
                                          /\ ~has_all_inputs_with_defaults(c))
        enough == SelectSeq(filtered, LAMBDA c :
                      \A s \in DOMAIN G.ins[c] :
                          G.ins[c][s].is_mandatory => s \in DOMAIN inp[c])
    IN IF all_lazy_variadic \/ all_with_default_inputs
       THEN find_next_runnable_lazy_variadic_or_default_component(wq)
       ELSE IF enough # <<>> THEN Head(enough)
       ELSE IF filtered # <<>> THEN Last(filtered)
       ELSE Last(wq)

\* _is_stuck_in_a_loop
is_stuck_in_a_loop(wq) ==
    IF ~\E i \in DOMAIN wq : is_lazy_variadic(wq[i])
                             \/ has_all_inputs_with_defaults(wq[i])
    THEN TRUE
    ELSE Len(wq) = 1

(***************************************************************************)
(* AsyncPipeline._run_component                                            *)
(***************************************************************************)
\* the value a component returns: one value per output socket it emits
ComponentResult(name, keys, vis) ==
    [s \in keys |-> [src |-> name, n |-> vis[name] + 1]]

\* "visits" += 1
IncrementVisits(name, vis) == [vis EXCEPT ![name] = @ + 1]

\* a variant that leaves the accumulators as they are
KeepVariadicInputs(name, inp) == inp

\* the variadic sockets that were passed to the component are reset to []
ResetVariadicInputs(name, inp) ==
    [inp EXCEPT ![name] =
        [s \in DOMAIN inp[name] |->
            IF G.ins[name][s].is_variadic THEN <<>> ELSE inp[name][s]]]

\* the record kept of an invocation: the inputs passed and both run queues
Invocation(name, where, own, outer) ==
    [name |-> name, where |-> where, inputs |-> components_inputs[name],
     own |-> own, outer |-> outer, store |-> components_inputs,
     waiting |-> IF where = "main" THEN waiting_queue ELSE sub.wq,
     outcome |-> "running"]

\* the last invocation of the log, marked with the way it ended
Ended(log, outcome) == [log EXCEPT ![Len(log)].outcome = outcome]

\* a variant in which the scheduler goes on without awaiting the component
NoAwait(where) == where

\* the position of the generator while it awaits the component it started
Await(where) == IF where = "main" THEN "main_await" ELSE "sub_await"

(***************************************************************************)
(* The items of the stream.                                                *)
(***************************************************************************)
\* a variant that hands out the object itself
same_object(obj) == [obj |-> obj, shares |-> TRUE]

\* copy.deepcopy: an equal object that shares no storage with the original
deepcopy(obj) == [obj |-> obj, shares |-> FALSE]

\* yield {name: deepcopy(res)}; shares tells whether the output map handed
\* to the consumer is the object the scheduler goes on using
IntermediateItem(name, res) ==
    LET copy == deepcopy(res)
    IN [d |-> [c \in {name} |-> copy.obj], final |-> FALSE, shares |-> copy.shares]

\* yield final_outputs
FinalItem(fo) == [d |-> fo, final |-> TRUE, shares |-> TRUE]

\* the value the consumer writes into an output map it received
ConsumerValue == [src |-> "consumer", n |-> 0]

\* an output map after the consumer overwrote its values in place
MutatedByConsumer(res) == [s \in DOMAIN res |-> ConsumerValue]

\* a variant that hands the new item to the consumer ahead of the earlier ones
YieldFirst(items, item) == <<item>> \o items

Yield(items, item) == Append(items, item)

\* a variant with the test on is_final_output inverted
ForwardFinalOnly(items, subgraph_output, is_final_output) ==
    IF is_final_output THEN Yield(items, subgraph_output) ELSE items

\* a variant that passes on every item of the sub-scheduler, the final one too
ForwardEverything(items, subgraph_output, is_final_output) ==
    Yield(items, subgraph_output)

\* the outer loop passes on what the sub-scheduler yields, except the item
\* tagged final
ForwardSubgraphOutput(items, subgraph_output, is_final_output) ==
    IF ~is_final_output THEN Yield(items, subgraph_output) ELSE items

\* a variant for which one snapshot of the waiting queue is enough
WitnessDefined(bl, l) == l.some

(***************************************************************************)
(* The progress check shared by both loops (run queue drained, waiting     *)
(* queue not empty).                                                       *)
(***************************************************************************)
\* the two witnesses are defined and equal
WitnessesEqual(bl, l) == bl.some /\ l.some /\ bl.s = l.s

progress_check(rq, wq, bl, l, inp) ==
    IF Len(rq) = 0 /\ Len(wq) > 0
    THEN IF WitnessesEqual(bl, l)
         THEN IF is_stuck_in_a_loop(wq)
              THEN [rq |-> rq, wq |-> wq, bl |-> bl, l |-> l, inp |-> inp,
                    brk |-> TRUE]
              ELSE LET c == find_next_runnable_lazy_variadic_or_default_component(wq)
                   IN [rq |-> enqueue_component_rq(c, rq),
                       wq |-> Remove(wq, c), bl |-> bl, l |-> l,
                       inp |-> add_missing_input_defaults(c, inp),
                       brk |-> FALSE]
         ELSE LET c == find_next_runnable_component(inp, wq)
              IN [rq |-> enqueue_component_rq(c, rq),
                  wq |-> Remove(wq, c),
                  bl |-> l, l |-> SomeSet(Names(wq)),
                  inp |-> add_missing_input_defaults(c, inp),
                  brk |-> FALSE]
    ELSE [rq |-> rq, wq |-> wq, bl |-> bl, l |-> l, inp |-> inp, brk |-> FALSE]

\* a variant without the lazy-variadic deferral
never_defer(q) == FALSE

\* a variant that defers a lazy-variadic head whatever is left in the queue
always_defer(q) == is_lazy_variadic(Head(q))

\* the lazy-variadic deferral test applied to a popped head
must_defer(q) ==
    /\ is_lazy_variadic(Head(q))
    /\ ~\A i \in 2..Len(q) : is_lazy_variadic(q[i])

\* visits > max_runs_per_component
max_runs_reached(name) == visits[name] > max_runs_per_component

(***************************************************************************)
(* Initial state: AsyncPipeline.run up to the main loop.                   *)
(***************************************************************************)
\* first is the position in the history of the first invocation the
\* sub-scheduler makes
NoSub == [active |-> FALSE, cycle |-> <<>>, rq |-> <<>>, wq |-> <<>>,
          bl |-> NoneSet, l |-> NoneSet, outs |-> EmptyDict, order |-> <<>>,
          cri |-> FALSE, brk |-> FALSE, first |-> 0]

NoCur == [name |-> "", res |-> EmptyDict]

NoErr == [kind |-> "none", comp |-> ""]

NoResult == [include |-> NoneSet, out |-> EmptyDict]

\* a variant that also gives a default to the sockets that have senders
InitialInputsAllSockets(g) ==
    [c \in g.comps |->
        [s \in DOMAIN g.ins[c] |->
            LET v == IF <<c, s>> \in data THEN UserValue ELSE DefaultValue
            IN IF g.ins[c][s].is_variadic THEN <<v>> ELSE v]]

\* _normalize_varidiac_input_data and the defaults of unconnected sockets
InitialInputs(g) ==
    [c \in g.comps |->
        [s \in {t \in DOMAIN g.ins[c] :
                    <<c, t>> \in data \/ g.ins[c][t].senders = {}} |->
            LET v == IF <<c, s>> \in data THEN UserValue ELSE DefaultValue
            IN IF g.ins[c][s].is_variadic THEN <<v>> ELSE v]]

\* the data of the pipeline under test, as (component, socket) pairs
ValidData(g) ==
    {p \in g.comps \X UNION {g.data[x] : x \in g.comps} : p[2] \in g.data[p[1]]}

\* the data arguments tried: the valid one, one naming an unknown component,
\* one naming an unknown socket, one lacking a mandatory value
DataChoices(g) ==
    LET ok == ValidData(g)
        first == g.topo[1]
    IN {ok,
        ok \cup {<<"unknown_component", "x">>},
        ok \cup {<<first, "unknown_socket">>},
        {p \in ok : p[1] # first}}

\* what an earlier run of the same pipeline may have left in the counters
PreviousVisits(g) == {[c \in g.comps |-> n] : n \in 0..1}

\* _validate_input: the reason for which data is rejected, or "ok"
validate_input(g, dat) ==
    IF \E p \in dat : p[1] \notin g.comps THEN "unknown component"
    ELSE IF \E p \in dat : p[2] \notin DOMAIN g.ins[p[1]] THEN "unknown socket"
    ELSE IF \E c \in g.comps : \E t \in DOMAIN g.ins[c] :
                /\ g.ins[c][t].is_mandatory /\ g.ins[c][t].senders = {}
                /\ <<c, t>> \notin dat
         THEN "missing input"
    ELSE "ok"

\* a variant that leaves the counters of the earlier run in place
keep_graph(g) == previous_visits

\* _init_graph: reset the visits count for each component
init_graph(g) == [c \in g.comps |-> 0]

\* the pipeline is built, run(data) has been called, nothing was requested
Init ==
    /\ graph \in Names(Graphs)
    /\ max_runs_per_component \in 1..MaxRunsCfg
    /\ data \in DataChoices(graph)
    /\ previous_visits \in PreviousVisits(graph)
    /\ visits = previous_visits
    /\ requested = 0
    /\ pc = "created"
    /\ components_inputs = [c \in graph.comps |-> EmptyDict]
    /\ run_queue = <<>>
    /\ waiting_queue = <<>>
    /\ before_last_waiting_queue = NoneSet
    /\ last_waiting_queue = NoneSet
    /\ final_outputs = EmptyDict
    /\ sub = NoSub
    /\ cur = NoCur
    /\ stream = <<>>
    /\ invoked = <<>>
    /\ warnings = <<>>
    /\ err = NoErr
    /\ result = NoResult
    /\ mutated = {}
    /\ running = {}

\* the first item is requested and the data is accepted: the set-up of run
Start ==
    /\ pc = "created"
    /\ validate_input(graph, data) = "ok"
    /\ requested' = requested + 1
    /\ visits' = init_graph(graph)
    /\ components_inputs' = InitialInputs(graph)
    /\ run_queue' = graph.topo
    /\ pc' = "main"
    /\ UNCHANGED <<graph, max_runs_per_component, data, previous_visits,
                   waiting_queue, before_last_waiting_queue, last_waiting_queue,
                   final_outputs, sub, cur, stream, invoked, warnings, err,
                   result, mutated, running>>

\* the first item is requested and the data is rejected
StartInvalid ==
    /\ pc = "created"
    /\ validate_input(graph, data) # "ok"
    /\ requested' = requested + 1
    /\ visits' = init_graph(graph)
    /\ err' = [kind |-> "InvalidInput", comp |-> validate_input(graph, data)]
    /\ pc' = "error"
    /\ UNCHANGED <<graph, max_runs_per_component, data, previous_visits,
                   components_inputs, run_queue, waiting_queue,
                   before_last_waiting_queue, last_waiting_queue, final_outputs,
                   sub, cur, stream, invoked, warnings, result, mutated,
                   running>>

(***************************************************************************)
(* AsyncPipeline.run: the main loop.                                       *)
(***************************************************************************)
\* a variant whose stuck-loop break ends the run without the terminal item
MainTailNoTerminal(items, rq, wq, bl, l, inp, fo) ==
    LET p == progress_check(rq, wq, bl, l, inp)
    IN /\ run_queue' = p.rq
       /\ waiting_queue' = p.wq
       /\ before_last_waiting_queue' = p.bl
       /\ last_waiting_queue' = p.l
       /\ components_inputs' = p.inp
       /\ final_outputs' = fo
       /\ warnings' = IF p.brk THEN Append(warnings, "main") ELSE warnings
       /\ stream' = items
       /\ pc' = IF p.brk THEN "done" ELSE "main"

\* the end of a main-loop iteration: the progress check, and on a stuck
\* loop the warning, the break and the terminal yield
MainTail(items, rq, wq, bl, l, inp, fo) ==
    LET p == progress_check(rq, wq, bl, l, inp)
    IN /\ run_queue' = p.rq
       /\ waiting_queue' = p.wq
       /\ before_last_waiting_queue' = p.bl
       /\ last_waiting_queue' = p.l
       /\ components_inputs' = p.inp
       /\ final_outputs' = fo
       /\ IF p.brk
          THEN /\ warnings' = Append(warnings, "main")
               /\ stream' = Yield(items, FinalItem(fo))
               /\ pc' = "done"
          ELSE /\ warnings' = warnings
               /\ stream' = items
               /\ pc' = "main"

\* the popped component is lazy variadic and something else is still queued
MainDeferLazyVariadic ==
    /\ pc = "main" /\ Len(run_queue) > 0
    /\ must_defer(run_queue)
    /\ waiting_queue' = enqueue_waiting_component(Head(run_queue), waiting_queue)
    /\ run_queue' = Tail(run_queue)
    /\ UNCHANGED <<graph, max_runs_per_component, mutated, data, running,
                   previous_visits, requested, pc, components_inputs, visits,
                   before_last_waiting_queue, last_waiting_queue,
                   final_outputs, sub, cur, stream, invoked, warnings, err,
                   result>>

\* a variant that seeds the run queue with the whole cycle, rotated
RotatedRunQueue(cycle, component_name) ==
    SubSeq(cycle, Index(cycle, component_name), Len(cycle))
        \o SubSeq(cycle, 1, Index(cycle, component_name) - 1)

\* the start of _run_subgraph: the run queue of the cycle
SubgraphRunQueue(cycle, component_name) ==
    SubSeq(cycle, Index(cycle, component_name), Len(cycle))

\* the popped component is ready and part of a cycle: drive the sub-scheduler
MainDispatchCycle ==
    /\ pc = "main" /\ Len(run_queue) > 0
    /\ ~must_defer(run_queue)
    /\ LET name == Head(run_queue)
       IN /\ component_has_enough_inputs_to_run(name, components_inputs)
          /\ G.cycles[name] # <<>>
          /\ sub' = [NoSub EXCEPT !.active = TRUE,
                                  !.cycle = G.cycles[name][1],
                                  !.rq = SubgraphRunQueue(G.cycles[name][1], name),
                                  !.first = Len(invoked) + 1]
    /\ run_queue' = Tail(run_queue)
    /\ pc' = "sub"
    /\ UNCHANGED <<graph, max_runs_per_component, mutated, data, running,
                   previous_visits, requested, components_inputs, visits,
                   waiting_queue, before_last_waiting_queue,
                   last_waiting_queue, final_outputs, cur, stream, invoked,
                   warnings, err, result>>

\* the popped component is ready but has used up its runs
MainRaiseMaxRuns ==
    /\ pc = "main" /\ Len(run_queue) > 0
    /\ ~must_defer(run_queue)
    /\ LET name == Head(run_queue)
       IN /\ component_has_enough_inputs_to_run(name, components_inputs)
          /\ G.cycles[name] = <<>>
          /\ max_runs_reached(name)
          /\ err' = [kind |-> "PipelineMaxComponentRuns", comp |-> name]
    /\ run_queue' = Tail(run_queue)
    /\ pc' = "error"
    /\ UNCHANGED <<graph, max_runs_per_component, mutated, data, running,
                   previous_visits, requested, components_inputs, visits,
                   waiting_queue, before_last_waiting_queue,
                   last_waiting_queue, final_outputs, sub, cur, stream,
                   invoked, warnings, result>>

\* the popped component is ready: _run_component is called and awaits it
MainRunComponent ==
    /\ pc = "main" /\ Len(run_queue) > 0
    /\ ~must_defer(run_queue)
    /\ LET name == Head(run_queue)
       IN /\ component_has_enough_inputs_to_run(name, components_inputs)
          /\ G.cycles[name] = <<>>
          /\ ~max_runs_reached(name)
          /\ cur' = [name |-> name, res |-> EmptyDict]
          /\ running' = running \cup {name}
          /\ invoked' = Append(invoked,
                Invocation(name, "main", Tail(run_queue), Tail(run_queue)))
    /\ run_queue' = Tail(run_queue)
    /\ pc' = Await("main")
    /\ UNCHANGED <<graph, max_runs_per_component, mutated, data,
                   previous_visits, requested, components_inputs, visits,
                   waiting_queue, before_last_waiting_queue,
                   last_waiting_queue, final_outputs, sub, stream, warnings,
                   err, result>>

\* a variant that deletes every input the component was given
DeleteAllInputs(name, inp) == [inp EXCEPT ![name] = EmptyDict]

\* delete the consumed inputs that came from other components
DeleteConsumedInputs(name, inp) ==
    [inp EXCEPT ![name] =
        Del(@, {s \in DOMAIN inp[name] : G.ins[name][s].senders # {}})]

\* a variant that keeps the first leaf outputs recorded for a component
RecordFirstFinalOutputs(fo, name, res) ==
    IF DOMAIN res # {} /\ name \notin DOMAIN fo THEN Put(fo, name, res) ELSE fo

\* final_outputs[name] = res when something is left
RecordFinalOutputs(fo, name, res) ==
    IF DOMAIN res # {} THEN Put(fo, name, res) ELSE fo

\* the consumer asked for the next item: the rest of the iteration
MainAfterYield ==
    /\ pc = "main_yield"
    /\ requested' = requested + 1
    /\ LET name == cur.name
           inp1 == DeleteConsumedInputs(name, components_inputs)
           wq1 == dequeue_waiting_component(name, waiting_queue)
           none == find_components_that_will_receive_no_input(name, cur.res, inp1)
           d == distribute_output(find_receivers_from(name), cur.res, inp1,
                                  RemoveAll(run_queue, none), RemoveAll(wq1, none))
       IN MainTail(stream, d.rq, d.wq, NoneSet, NoneSet, d.inp,
                   RecordFinalOutputs(final_outputs, name, d.res))
    /\ cur' = NoCur
    /\ UNCHANGED <<graph, max_runs_per_component, mutated, data, running,
                   previous_visits, visits, sub, invoked, err, result>>

\* the popped component lacks inputs
MainNotReady ==
    /\ pc = "main" /\ Len(run_queue) > 0
    /\ ~must_defer(run_queue)
    /\ ~component_has_enough_inputs_to_run(Head(run_queue), components_inputs)
    /\ MainTail(stream, Tail(run_queue),
                enqueue_waiting_component(Head(run_queue), waiting_queue),
                before_last_waiting_queue, last_waiting_queue,
                components_inputs, final_outputs)
    /\ UNCHANGED <<graph, max_runs_per_component, mutated, data, running,
                   previous_visits, requested, visits, sub, cur, invoked,
                   err, result>>

\* the run queue is empty: the terminal yield
MainYieldFinal ==
    /\ pc = "main" /\ Len(run_queue) = 0
    /\ stream' = Yield(stream, FinalItem(final_outputs))
    /\ pc' = "done"
    /\ UNCHANGED <<graph, max_runs_per_component, mutated, data, running,
                   previous_visits, requested, components_inputs, visits,
                   run_queue, waiting_queue, before_last_waiting_queue,
                   last_waiting_queue, final_outputs, sub, cur, invoked,
                   warnings, err, result>>

(***************************************************************************)
(* AsyncPipeline._run_subgraph: the cycle sub-scheduler.                   *)
(***************************************************************************)
SubLoopTop == pc = "sub" /\ ~sub.cri /\ ~sub.brk /\ Len(sub.rq) > 0

\* the end of a sub-scheduler iteration: the progress check, and on a stuck
\* loop the warning and the break
SubTail(frame, inp) ==
    LET p == progress_check(frame.rq, frame.wq, frame.bl, frame.l, inp)
    IN /\ sub' = [frame EXCEPT !.rq = p.rq, !.wq = p.wq, !.bl = p.bl,
                               !.l = p.l, !.brk = p.brk]
       /\ components_inputs' = p.inp
       /\ warnings' = IF p.brk THEN Append(warnings, "sub") ELSE warnings
       /\ pc' = "sub"

SubDeferLazyVariadic ==
    /\ SubLoopTop
    /\ must_defer(sub.rq)
    /\ sub' = [sub EXCEPT !.rq = Tail(sub.rq),
                          !.wq = enqueue_waiting_component(Head(sub.rq), sub.wq)]
    /\ UNCHANGED <<graph, max_runs_per_component, mutated, data, running,
                   previous_visits, requested, pc, components_inputs, visits,
                   run_queue, waiting_queue, before_last_waiting_queue,
                   last_waiting_queue, final_outputs, cur, stream, invoked,
                   warnings, err, result>>

SubRaiseMaxRuns ==
    /\ SubLoopTop
    /\ ~must_defer(sub.rq)
    /\ LET name == Head(sub.rq)
       IN /\ component_has_enough_inputs_to_run(name, components_inputs)
          /\ max_runs_reached(name)
          /\ err' = [kind |-> "PipelineMaxComponentRuns", comp |-> name]
    /\ sub' = [sub EXCEPT !.rq = Tail(sub.rq)]
    /\ pc' = "error"
    /\ UNCHANGED <<graph, max_runs_per_component, mutated, data, running,
                   previous_visits, requested, components_inputs, visits,
                   run_queue, waiting_queue, before_last_waiting_queue,
                   last_waiting_queue, final_outputs, cur, stream, invoked,
                   warnings, result>>

\* the popped component is ready: _run_component is called and awaits it
SubRunComponent ==
    /\ SubLoopTop
    /\ ~must_defer(sub.rq)
    /\ LET name == Head(sub.rq)
       IN /\ component_has_enough_inputs_to_run(name, components_inputs)
          /\ ~max_runs_reached(name)
          /\ cur' = [name |-> name, res |-> EmptyDict]
          /\ running' = running \cup {name}
          /\ invoked' = Append(invoked,
                Invocation(name, "sub", Tail(sub.rq), run_queue))
    /\ sub' = [sub EXCEPT !.rq = Tail(sub.rq)]
    /\ pc' = Await("sub")
    /\ UNCHANGED <<graph, max_runs_per_component, mutated, data,
                   previous_visits, requested, components_inputs, visits,
                   run_queue, waiting_queue, before_last_waiting_queue,
                   last_waiting_queue, final_outputs, stream, warnings, err,
                   result>>

\* a variant that applies the rule of the main loop inside the cycle
DeleteSentInputs(name, cycle, inp) == DeleteConsumedInputs(name, inp)

\* delete the consumed inputs whose senders are all part of the cycle
DeleteCycleInputs(name, cycle, inp) ==
    [inp EXCEPT ![name] =
        Del(@, {s \in DOMAIN inp[name] :
                    /\ G.ins[name][s].senders # {}
                    /\ \A sender \in G.ins[name][s].senders : InSeq(sender, cycle)})]

\* a variant that goes on as long as the component returned anything
any_output_reached(name, res, cycle) == DOMAIN res # {}

\* some output socket of res has a receiver inside the cycle
final_output_reached(name, res, cycle) ==
    \E s \in (DOMAIN res) \cap (DOMAIN G.outs[name]) :
        \E receiver \in G.outs[name][s] : InSeq(receiver, cycle)

\* the keys of res that are not output sockets of the component
undeclared_keys(name, res) == (DOMAIN res) \ (DOMAIN G.outs[name])

\* a variant that forgets what leaves the cycle
DropSubgraphOutputs(frame, name, res) == frame

\* subgraph_outputs[name] = res when something is left
RecordSubgraphOutputs(frame, name, res) ==
    IF DOMAIN res # {}
    THEN [frame EXCEPT !.outs = Put(@, name, res),
                       !.order = IF InSeq(name, @) THEN @ ELSE Append(@, name)]
    ELSE frame

\* the consumer asked for the next item: the rest of the iteration.  The
\* loop over res.keys() stops at the first socket with a receiver in the
\* cycle, so it gets past an undeclared key only when such a socket exists
\* and comes first.
SubAfterYield ==
    /\ pc = "sub_yield"
    /\ \/ undeclared_keys(cur.name, cur.res) = {}
       \/ final_output_reached(cur.name, cur.res, sub.cycle)
    /\ requested' = requested + 1
    /\ LET name == cur.name
           cycle == sub.cycle
           inp1 == DeleteCycleInputs(name, cycle, components_inputs)
           wq1 == dequeue_waiting_component(name, sub.wq)
           none == find_components_that_will_receive_no_input(name, cur.res, inp1)
           receivers == SelectSeq(find_receivers_from(name),
                                  LAMBDA e : InSeq(e.to, cycle))
           d == distribute_output(receivers, cur.res, inp1,
                                  RemoveAll(sub.rq, none), RemoveAll(wq1, none))
           f1 == [sub EXCEPT !.rq = d.rq, !.wq = d.wq, !.bl = NoneSet,
                             !.l = NoneSet,
                             !.cri = ~final_output_reached(name, cur.res, cycle)]
       IN SubTail(RecordSubgraphOutputs(f1, name, d.res), d.inp)
    /\ cur' = NoCur
    /\ UNCHANGED <<graph, max_runs_per_component, mutated, data, running,
                   previous_visits, visits, run_queue,
                   waiting_queue, before_last_waiting_queue,
                   last_waiting_queue, final_outputs, stream, invoked, err, result>>

\* the consumer asked for the next item and the loop over res.keys() comes
\* to a key that is not in _sockets_dict: KeyError
SubUndeclaredKey ==
    /\ pc = "sub_yield"
    /\ undeclared_keys(cur.name, cur.res) # {}
    /\ requested' = requested + 1
    /\ components_inputs' = DeleteCycleInputs(cur.name, sub.cycle, components_inputs)
    /\ sub' = [sub EXCEPT !.bl = NoneSet, !.l = NoneSet]
    /\ err' = [kind |-> "KeyError", comp |-> cur.name]
    /\ cur' = NoCur
    /\ pc' = "error"
    /\ UNCHANGED <<graph, max_runs_per_component, mutated, data, running,
                   previous_visits, visits, run_queue, waiting_queue,
                   before_last_waiting_queue, last_waiting_queue,
                   final_outputs, stream, invoked, warnings, result>>

SubNotReady ==
    /\ SubLoopTop
    /\ ~must_defer(sub.rq)
    /\ ~component_has_enough_inputs_to_run(Head(sub.rq), components_inputs)
    /\ SubTail([sub EXCEPT !.rq = Tail(sub.rq),
                           !.wq = enqueue_waiting_component(Head(sub.rq), sub.wq)],
               components_inputs)
    /\ UNCHANGED <<graph, max_runs_per_component, mutated, data, running,
                   previous_visits, requested, visits, run_queue,
                   waiting_queue, before_last_waiting_queue,
                   last_waiting_queue, final_outputs, cur, stream, invoked,
                   err, result>>

\* the outer loop distributes the outputs the sub-scheduler returned
RECURSIVE distribute_subgraph_output(_, _, _)
distribute_subgraph_output(order, outs, st) ==
    IF order = <<>> THEN st
    ELSE LET component_name == Head(order)
             d == distribute_output(find_receivers_from(component_name),
                                    outs[component_name], st.inp, st.rq, st.wq)
         IN distribute_subgraph_output(Tail(order), outs,
                [inp |-> d.inp, rq |-> d.rq, wq |-> d.wq,
                 fo |-> RecordFinalOutputs(st.fo, component_name, d.res)])

\* the sub-scheduler yields subgraph_outputs tagged final and ends; the
\* outer loop resets its run queue and distributes them
SubReturn ==
    /\ pc = "sub" /\ (sub.cri \/ sub.brk)
    /\ LET st == distribute_subgraph_output(sub.order, sub.outs,
                    [inp |-> components_inputs, rq |-> <<>>,
                     wq |-> waiting_queue, fo |-> final_outputs])
       IN MainTail(ForwardSubgraphOutput(stream,
                       [d |-> sub.outs, final |-> FALSE, shares |-> TRUE], TRUE),
                   st.rq, st.wq, NoneSet, NoneSet, st.inp, st.fo)
    /\ sub' = NoSub
    /\ UNCHANGED <<graph, max_runs_per_component, mutated, data, running,
                   previous_visits, requested, visits, cur, invoked, err, result>>

(***************************************************************************)
(* run_async_pipeline                                                      *)
(***************************************************************************)
\* a variant that keeps the first item of each name instead of the last
first_intermediate_outputs(outputs, include) ==
    LET body == SubSeq(outputs, 1, Len(outputs) - 1)
        keep(k) == ~include.some \/ k \in include.s
        keys == {k \in UNION {DOMAIN body[i].d : i \in DOMAIN body} : keep(k)}
        first(k) == CHOOSE i \in DOMAIN body :
                      /\ k \in DOMAIN body[i].d
                      /\ \A j \in DOMAIN body : j < i => k \notin DOMAIN body[j].d
    IN [k \in keys |-> body[first(k)].d[k]]

\* intermediate_outputs: the last item of each name that passes the filter
intermediate_outputs(outputs, include) ==
    LET body == SubSeq(outputs, 1, Len(outputs) - 1)
        keep(k) == ~include.some \/ k \in include.s
        keys == {k \in UNION {DOMAIN body[i].d : i \in DOMAIN body} : keep(k)}
        last(k) == CHOOSE i \in DOMAIN body :
                      /\ k \in DOMAIN body[i].d
                      /\ \A j \in DOMAIN body : j > i => k \notin DOMAIN body[j].d
    IN [k \in keys |-> body[last(k)].d[k]]

\* the accumulation of the extra outputs into final_output
merge_outputs(final_output, inter) ==
    [name \in (DOMAIN final_output) \cup (DOMAIN inter) |->
        IF name \notin DOMAIN inter THEN final_output[name]
        ELSE IF name \notin DOMAIN final_output THEN inter[name]
        ELSE [k \in (DOMAIN final_output[name]) \cup (DOMAIN inter[name]) |->
                IF k \in DOMAIN final_output[name]
                THEN final_output[name][k] ELSE inter[name][k]]]

run_async_pipeline(outputs, include) ==
    merge_outputs(Last(outputs).d, intermediate_outputs(outputs, include))

Includes == {NoneSet} \cup {SomeSet(S) : S \in SUBSET Comps}

RunAsyncPipeline ==
    /\ pc = "done"
    /\ \E include \in Includes :
         result' = [include |-> include,
                    out |-> run_async_pipeline(stream, include)]
    /\ pc' = "returned"
    /\ UNCHANGED <<graph, max_runs_per_component, mutated, data, running,
                   previous_visits, requested, components_inputs, visits,
                   run_queue, waiting_queue, before_last_waiting_queue,
                   last_waiting_queue, final_outputs, sub, cur, stream,
                   invoked, warnings, err>>

(***************************************************************************)
(* _run_component, awaited by either loop, and the yield that follows.     *)
(***************************************************************************)
Awaiting == pc \in {"main_await", "sub_await"}

\* the component returns a mapping: visits += 1, the variadic inputs are
\* reset, and the caller yields a copy of the result
ComponentReturns ==
    /\ Awaiting
    /\ LET name == cur.name
           where == Last(invoked).where
       IN /\ \E keys \in G.behaviours[name] :
               LET res == ComponentResult(name, keys, visits)
               IN /\ cur' = [name |-> name, res |-> res]
                  /\ stream' = IF where = "main"
                                THEN Yield(stream, IntermediateItem(name, res))
                                ELSE ForwardSubgraphOutput(stream,
                                        IntermediateItem(name, res), FALSE)
          /\ visits' = IncrementVisits(name, visits)
          /\ components_inputs' = ResetVariadicInputs(name, components_inputs)
          /\ running' = running \ {name}
          /\ invoked' = Ended(invoked, "returned")
          /\ pc' = IF where = "main" THEN "main_yield" ELSE "sub_yield"
    /\ UNCHANGED <<graph, max_runs_per_component, mutated, data,
                   previous_visits, requested, run_queue, waiting_queue,
                   before_last_waiting_queue, last_waiting_queue,
                   final_outputs, sub, warnings, err, result>>

\* a variant that counts the failed invocation as a visit
ComponentRaisesCounted ==
    /\ Awaiting
    /\ err' = [kind |-> "ComponentRuntime", comp |-> cur.name]
    /\ visits' = IncrementVisits(cur.name, visits)
    /\ running' = running \ {cur.name}
    /\ invoked' = Ended(invoked, "raised")
    /\ cur' = NoCur
    /\ pc' = "error"
    /\ UNCHANGED <<graph, max_runs_per_component, mutated, data,
                   previous_visits, requested, components_inputs,
                   run_queue, waiting_queue, before_last_waiting_queue,
                   last_waiting_queue, final_outputs, sub, stream, warnings,
                   result>>

\* the component raises: the exception leaves _run_component at the await
ComponentRaises ==
    /\ Awaiting
    /\ err' = [kind |-> "ComponentRuntime", comp |-> cur.name]
    /\ running' = running \ {cur.name}
    /\ invoked' = Ended(invoked, "raised")
    /\ cur' = NoCur
    /\ pc' = "error"
    /\ UNCHANGED <<graph, max_runs_per_component, mutated, data,
                   previous_visits, requested, components_inputs, visits,
                   run_queue, waiting_queue, before_last_waiting_queue,
                   last_waiting_queue, final_outputs, sub, stream, warnings,
                   result>>

\* the component returns something that is not a Mapping: the counter and
\* the variadic inputs are updated, then PipelineRuntimeError is raised
ComponentReturnsNoMapping ==
    /\ Awaiting
    /\ visits' = IncrementVisits(cur.name, visits)
    /\ components_inputs' = ResetVariadicInputs(cur.name, components_inputs)
    /\ err' = [kind |-> "PipelineRuntimeError", comp |-> cur.name]
    /\ running' = running \ {cur.name}
    /\ invoked' = Ended(invoked, "not a mapping")
    /\ cur' = NoCur
    /\ pc' = "error"
    /\ UNCHANGED <<graph, max_runs_per_component, mutated, data,
                   previous_visits, requested, run_queue, waiting_queue,
                   before_last_waiting_queue, last_waiting_queue,
                   final_outputs, sub, stream, warnings, result>>

\* the consumer mutates in place the output map of the item it has just
\* received, while the generator is suspended at the yield
ConsumerMutates ==
    /\ pc \in {"main_yield", "sub_yield"}
    /\ Len(stream) > 0
    /\ Len(stream) \notin mutated
    /\ Cardinality(mutated) < MaxMutations
    /\ mutated' = mutated \cup {Len(stream)}
    /\ cur' = IF Last(stream).shares
              THEN [cur EXCEPT !.res = MutatedByConsumer(@)] ELSE cur
    /\ UNCHANGED <<graph, max_runs_per_component, pc, components_inputs,
                   visits, run_queue, waiting_queue, before_last_waiting_queue,
                   last_waiting_queue, final_outputs, sub, stream, invoked,
                   warnings, err, result, data, previous_visits, requested,
                   running>>

Next ==
    \/ Start
    \/ StartInvalid
    \/ MainDeferLazyVariadic
    \/ MainDispatchCycle
    \/ MainRaiseMaxRuns
    \/ MainRunComponent
    \/ MainAfterYield
    \/ MainNotReady
    \/ MainYieldFinal
    \/ SubDeferLazyVariadic
    \/ SubRaiseMaxRuns
    \/ SubRunComponent
    \/ SubAfterYield
    \/ SubNotReady
    \/ SubReturn
    \/ RunAsyncPipeline
    \/ ConsumerMutates
    \/ ComponentReturns
    \/ ComponentRaises
    \/ ComponentReturnsNoMapping
    \/ SubUndeclaredKey

Spec == Init /\ [][Next]_vars

(***************************************************************************)
(* The run under the hypotheses of termination: the loops keep going,      *)
(* every component that was started ends and the consumer keeps asking     *)
(* for the next item, so no step that can be taken is put off forever.     *)
(***************************************************************************)
FairSpec == Spec /\ WF_vars(Next)

(***************************************************************************)
(* Vocabulary of the properties.                                           *)
(***************************************************************************)
Terminated == pc \in {"done", "returned"}

\* the positions of the stream that hold an intermediate item of c
ItemsOf(c) ==
    {i \in DOMAIN stream : ~stream[i].final /\ c \in DOMAIN stream[i].d}

InvocationsOf(c) == {i \in DOMAIN invoked : invoked[i].name = c}

InvokedBefore(c, i) == \E j \in 1..(i - 1) : invoked[j].name = c

Acyclic == \A c \in Comps : G.cycles[c] = <<>>

LeafSockets(c) == {s \in DOMAIN G.outs[c] : G.outs[c][s] = {}}

\* the outputs on receiver-less sockets of the last item streamed for c
LastLeafMap(c) ==
    LET last == CHOOSE i \in ItemsOf(c) : \A j \in ItemsOf(c) : j <= i
        out == stream[last].d[c]
    IN [s \in {k \in DOMAIN out : k \in DOMAIN G.outs[c] => G.outs[c][k] = {}} |->
            out[s]]

AllLazyVariadic(q) == \A k \in DOMAIN q : is_lazy_variadic(q[k])

(***************************************************************************)
(* C1: the terminal final_outputs is yielded exactly once, as the last     *)
(* item of a run that ends without error, and the intermediate items       *)
(* before it are the invocations, one each, in the order in which the      *)
(* components were invoked (cycle iterations included).                    *)
(***************************************************************************)
StreamOrder ==
    LET n == Len(stream)
        k == Cardinality({i \in DOMAIN invoked : invoked[i].outcome = "returned"})
    IN /\ \A i \in 1..n : stream[i].final => i = n /\ Terminated
       /\ n = k + (IF Terminated THEN 1 ELSE 0)
       /\ \A i \in 1..k : i <= n /\ ~stream[i].final
                          /\ DOMAIN stream[i].d = {invoked[i].name}
       /\ Terminated => (n > 0 /\ stream[n].final /\ stream[n].d = final_outputs)

StreamOrderWitness ==
    /\ pc = "done"
    /\ \E i \in DOMAIN invoked : invoked[i].where = "sub"
    /\ \E i \in DOMAIN invoked : invoked[i].where = "main"
    /\ Len(stream) >= 4

(***************************************************************************)
(* C2: visits[c] <= max_runs_per_component for every component c in every  *)
(* reachable state.                                                        *)
(***************************************************************************)
VisitBound == \A c \in Comps : visits[c] <= max_runs_per_component

(***************************************************************************)
(* C3: when PipelineMaxComponentRuns is raised for a component, that       *)
(* component has completed exactly max_runs_per_component runs (the        *)
(* attempt after the M-th run raises) and no terminal item was yielded.    *)
(***************************************************************************)
MaxRunsTrip ==
    err.kind = "PipelineMaxComponentRuns" =>
        /\ visits[err.comp] = max_runs_per_component
        /\ \A i \in DOMAIN stream : ~stream[i].final

(***************************************************************************)
(* C4 as stated: when a lazy-variadic component starts running, in the     *)
(* main loop or in the sub-scheduler, no run queue of the pipeline run     *)
(* holds a component that is not lazy variadic.                            *)
(***************************************************************************)
LazyVariadicRunsLastInRun ==
    \A i \in DOMAIN invoked :
        is_lazy_variadic(invoked[i].name) =>
            AllLazyVariadic(invoked[i].own) /\ AllLazyVariadic(invoked[i].outer)

(***************************************************************************)
(* C4 amended: when a lazy-variadic component starts running, every entry  *)
(* remaining in the run queue of the loop that runs it (the main loop's,   *)
(* or the sub-scheduler's own inside a cycle) is lazy variadic.            *)
(***************************************************************************)
LazyVariadicRunsLastInLoop ==
    \A i \in DOMAIN invoked :
        is_lazy_variadic(invoked[i].name) => AllLazyVariadic(invoked[i].own)

LazyVariadicWitness ==
    /\ \E i \in DOMAIN invoked :
          is_lazy_variadic(invoked[i].name) /\ invoked[i].where = "sub"
    /\ \E i \in DOMAIN invoked : ~is_lazy_variadic(invoked[i].name)
    /\ pc = "done"

(***************************************************************************)
(* C5: when the run has yielded final_outputs, the number of intermediate  *)
(* items streamed for a component equals its number of invocations         *)
(* (visits), iterations inside a cycle included.                           *)
(***************************************************************************)
OneItemPerInvocation ==
    Terminated =>
        \A c \in Comps :
            /\ Cardinality(ItemsOf(c)) = visits[c]
            /\ Cardinality(InvocationsOf(c)) = visits[c]

OneItemPerInvocationWitness ==
    /\ pc = "done"
    /\ \E c \in Comps : visits[c] >= 3 /\ G.cycles[c] # <<>>
    /\ \E c \in Comps : visits[c] = 0

LeafOfLastInvocation ==
    Terminated =>
        \A c \in Comps :
            visits[c] > 0 /\ LeafSockets(c) # {} =>
                IF DOMAIN LastLeafMap(c) = {}
                THEN c \notin DOMAIN Last(stream).d
                ELSE /\ c \in DOMAIN Last(stream).d
                     /\ Last(stream).d[c] = LastLeafMap(c)

(***************************************************************************)
(* C7 amended: at the end of a run, for every component whose last         *)
(* invocation produced at least one leaf output, final_outputs[c] is the   *)
(* leaf output map of that last invocation.                                *)
(***************************************************************************)
LeafOfLastProducingInvocation ==
    Terminated =>
        \A c \in Comps :
            visits[c] > 0 /\ LeafSockets(c) # {} /\ DOMAIN LastLeafMap(c) # {} =>
                    /\ c \in DOMAIN Last(stream).d
                    /\ Last(stream).d[c] = LastLeafMap(c)

LeafOfLastProducingInvocationWitness ==
    /\ pc = "done"
    /\ \E c \in Comps :
          /\ visits[c] >= 2
          /\ DOMAIN LastLeafMap(c) # {}
          /\ \E i \in ItemsOf(c) :
                \E s \in LeafSockets(c) :
                    /\ s \in DOMAIN stream[i].d[c]
                    /\ stream[i].d[c][s] # LastLeafMap(c)[s]

(***************************************************************************)
(* C8: a stuck loop detected in the main loop does not raise: the warning  *)
(* is emitted once with the run queue drained, the waiting queue not       *)
(* empty and two equal witnesses; nothing is invoked afterwards and the    *)
(* stream ends with the terminal item holding the accumulated outputs.     *)
(***************************************************************************)
MainStuckEndsCleanly ==
    InSeq("main", warnings) =>
        /\ Terminated
        /\ err = NoErr
        /\ Len(SelectSeq(warnings, LAMBDA w : w = "main")) = 1
        /\ Len(run_queue) = 0 /\ Len(waiting_queue) > 0
        /\ WitnessesEqual(before_last_waiting_queue, last_waiting_queue)
        /\ Len(stream) = Len(invoked) + 1
        /\ Last(stream).final
        /\ Last(stream).d = final_outputs

MainStuckWitness ==
    /\ InSeq("main", warnings)
    /\ pc = "done"
    /\ DOMAIN final_outputs # {}
    /\ Acyclic

ReturnsOnlyLeafOutputs ==
    pc = "returned" /\ ~result.include.some => result.out = Last(stream).d

\* the output map of the last intermediate item streamed for c
LastOutput(c) ==
    stream[CHOOSE i \in ItemsOf(c) : \A j \in ItemsOf(c) : j <= i].d[c]

(***************************************************************************)
(* C11: run_async_pipeline with a set include_outputs_from: a listed name  *)
(* that was invoked has in the result the keys of its last intermediate    *)
(* output together with the keys of its leaf entry, the leaf values        *)
(* winning; every other name appears exactly as in final_outputs.          *)
(***************************************************************************)
IncludeLastOutput ==
    pc = "returned" /\ result.include.some =>
        LET fo == Last(stream).d
            leaf(c) == IF c \in DOMAIN fo THEN fo[c] ELSE EmptyDict
        IN \A c \in Comps :
              IF c \in result.include.s /\ visits[c] > 0
              THEN /\ c \in DOMAIN result.out
                   /\ DOMAIN result.out[c] =
                         (DOMAIN LastOutput(c)) \cup (DOMAIN leaf(c))
                   /\ \A k \in DOMAIN result.out[c] :
                         result.out[c][k] =
                            IF k \in DOMAIN leaf(c) THEN leaf(c)[k]
                            ELSE LastOutput(c)[k]
              ELSE /\ c \in DOMAIN result.out <=> c \in DOMAIN fo
                   /\ c \in DOMAIN fo => result.out[c] = fo[c]

IncludeLastOutputWitness ==
    /\ pc = "returned" /\ result.include.some
    /\ \E c \in result.include.s :
          /\ visits[c] >= 2
          /\ c \in DOMAIN Last(stream).d
          /\ DOMAIN result.out[c] # DOMAIN Last(stream).d[c]
          /\ \E i \in ItemsOf(c) : stream[i].d[c] # LastOutput(c)
    /\ \E c \in Comps : visits[c] > 0 /\ c \notin DOMAIN result.out

\* an output map, or a map of input socket values of c, holding a value
\* written by the consumer
HoldsConsumerValue(res) == \E s \in DOMAIN res : res[s] = ConsumerValue

InputsHoldConsumerValue(c, inp) ==
    \E s \in DOMAIN inp :
        IF G.ins[c][s].is_variadic
        THEN \E i \in DOMAIN inp[s] : inp[s][i] = ConsumerValue
        ELSE inp[s] = ConsumerValue

(***************************************************************************)
(* C12: the intermediate items are deep snapshots: whatever the consumer   *)
(* writes into the output maps it received, no such value reaches the      *)
(* result the scheduler distributes, the Input Store, the inputs passed    *)
(* to a component, a later item or final_outputs.                          *)
(***************************************************************************)
DeepSnapshot ==
    mutated # {} =>
        /\ ~HoldsConsumerValue(cur.res)
        /\ \A c \in Comps : ~InputsHoldConsumerValue(c, components_inputs[c])
        /\ \A i \in DOMAIN invoked :
              ~InputsHoldConsumerValue(invoked[i].name, invoked[i].inputs)
        /\ \A c \in DOMAIN final_outputs : ~HoldsConsumerValue(final_outputs[c])
        /\ \A c \in DOMAIN sub.outs : ~HoldsConsumerValue(sub.outs[c])
        /\ \A i \in DOMAIN stream :
              \A c \in DOMAIN stream[i].d : ~HoldsConsumerValue(stream[i].d[c])

DeepSnapshotWitness ==
    /\ pc = "done"
    /\ Cardinality(mutated) = MaxMutations
    /\ \E i \in mutated :
          /\ DOMAIN stream[i].d[invoked[i].name] # {}
          /\ \E j \in DOMAIN invoked :
                j > i /\ DOMAIN invoked[j].inputs # {}
                      /\ invoked[j].name # invoked[i].name
    /\ \E i \in mutated : invoked[i].where = "sub"
    /\ DOMAIN final_outputs # {}

(***************************************************************************)
(* C13: the run progresses only when the stream is consumed: the number    *)
(* of invocations never exceeds the number of items requested; while the   *)
(* generator is suspended at a yield every requested item was delivered,   *)
(* and while it runs exactly one requested item is outstanding, so one     *)
(* yield separates two consecutive invocations, in a cycle as well.        *)
(***************************************************************************)
ProgressOnlyOnDemand ==
    /\ Len(invoked) <= requested
    /\ pc = "created" => requested = 0 /\ invoked = <<>> /\ stream = <<>>
    /\ pc \in {"main_yield", "sub_yield"} =>
          requested = Len(stream) /\ Len(invoked) = Len(stream)
    /\ pc \in {"main", "sub"} =>
          requested = Len(stream) + 1 /\ Len(invoked) = Len(stream)
    /\ Awaiting =>
          requested = Len(stream) + 1 /\ Len(invoked) = Len(stream) + 1

ProgressOnlyOnDemandWitness ==
    /\ pc = "sub_yield"
    /\ requested >= 3
    /\ \E i \in DOMAIN invoked : invoked[i].where = "main"

(***************************************************************************)
(* C15 as stated: when the input data is invalid, InvalidInput is raised   *)
(* before any component is invoked and before any item is yielded, and     *)
(* the visits counters are what they were before the call.                 *)
(***************************************************************************)
InvalidInputLeavesStateUntouched ==
    err.kind = "InvalidInput" =>
        /\ invoked = <<>> /\ stream = <<>>
        /\ visits = previous_visits

(***************************************************************************)
(* C15 amended: when the input data is invalid, InvalidInput is raised     *)
(* before any component is invoked and before any item is yielded; the     *)
(* visits counters have been reset to 0 by then, whatever an earlier run   *)
(* left in them, and nothing else of the run exists.                       *)
(***************************************************************************)
InvalidInputBeforeAnyRun ==
    err.kind = "InvalidInput" =>
        /\ invoked = <<>> /\ stream = <<>>
        /\ \A c \in Comps : visits[c] = 0
        /\ validate_input(graph, data) # "ok"
        /\ pc = "error" /\ requested = 1
        /\ run_queue = <<>> /\ DOMAIN final_outputs = {}

InvalidInputWitness ==
    /\ err.kind = "InvalidInput"
    /\ err.comp = "missing input"
    /\ visits # previous_visits

(***************************************************************************)
(* C14: at most one component is executing at any moment of a run, and     *)
(* between the start and the return of an invocation the generator awaits  *)
(* it: the Input Store and the queues are what they were when the          *)
(* component was started.                                                  *)
(***************************************************************************)
OneComponentAtATime ==
    /\ Cardinality(running) <= 1
    /\ Awaiting <=> running # {}
    /\ running # {} =>
          LET inv == Last(invoked)
          IN /\ running = {cur.name} /\ inv.name = cur.name
             /\ inv.outcome = "running"
             /\ components_inputs = inv.store
             /\ run_queue = inv.outer
             /\ IF inv.where = "main"
                THEN run_queue = inv.own /\ waiting_queue = inv.waiting
                ELSE sub.rq = inv.own /\ sub.wq = inv.waiting

OneComponentAtATimeWitness ==
    /\ pc = "sub_await"
    /\ running # {}
    /\ Len(invoked) >= 3
    /\ run_queue # <<>>
    /\ \E c \in Comps : DOMAIN components_inputs[c] # {}

ContractViolationAborts ==
    /\ err.kind = "PipelineRuntimeError" =>
          /\ Len(stream) = Len(invoked) - 1
          /\ \A i \in DOMAIN stream : ~stream[i].final
    /\ \A i \in DOMAIN stream :
          \A c \in DOMAIN stream[i].d :
              stream[i].final \/ undeclared_keys(c, stream[i].d[c]) = {}
    /\ \A c \in DOMAIN final_outputs : undeclared_keys(c, final_outputs[c]) = {}

(***************************************************************************)
(* C18: variadic join.  In the graph a -> j.in, b -> j.in with input for   *)
(* a and b, j is invoked at most once and only after a and b; when both    *)
(* produced, j is invoked exactly once by the end of the run and receives  *)
(* on in the two values in the order in which a and b completed.           *)
(***************************************************************************)
JoinScenario == G.comps = {"a", "b", "j"} /\ validate_input(graph, data) = "ok"

Produced(c, socket) ==
    \E i \in ItemsOf(c) : socket \in DOMAIN stream[i].d[c]

VariadicJoin ==
    JoinScenario =>
        /\ Cardinality(InvocationsOf("j")) <= 1
        /\ \A i \in InvocationsOf("j") :
              /\ InvokedBefore("a", i) /\ InvokedBefore("b", i)
              /\ Produced("a", "out") /\ Produced("b", "out") =>
                    LET ia == CHOOSE k \in InvocationsOf("a") : TRUE
                        ib == CHOOSE k \in InvocationsOf("b") : TRUE
                        va == stream[ia].d["a"]["out"]
                        vb == stream[ib].d["b"]["out"]
                    IN invoked[i].inputs["in"] =
                          IF ia < ib THEN <<va, vb>> ELSE <<vb, va>>
        /\ Terminated /\ Produced("a", "out") /\ Produced("b", "out") =>
              Cardinality(InvocationsOf("j")) = 1

VariadicJoinWitness ==
    /\ JoinScenario
    /\ pc = "done"
    /\ G.topo[1] = "b"
    /\ \E i \in InvocationsOf("j") : Len(invoked[i].inputs["in"]) = 2
    /\ "j" \in DOMAIN final_outputs

\* the output maps streamed for c, in order
OutputsOf(c) ==
    LET items == SelectSeq(stream, LAMBDA it : ~it.final /\ c \in DOMAIN it.d)
    IN [i \in DOMAIN items |-> items[i].d[c]]

(***************************************************************************)
(* C19: simple cycle.  In the graph a -> b -> a with b.done -> c, when b   *)
(* loops on its first run and emits only done on its second, the cycle     *)
(* yields one item per invocation and stops after the second run of b; c   *)
(* is invoked once, in the main loop, with the done value; neither the     *)
(* cycle nor the scheduler raises, and the terminal map holds the leaf     *)
(* output of c.                                                            *)
(***************************************************************************)
CycleScenario ==
    /\ G.comps = {"a", "b", "c"} /\ validate_input(graph, data) = "ok"
    /\ Len(OutputsOf("b")) >= 2
    /\ "loop" \in DOMAIN OutputsOf("b")[1] /\ "done" \notin DOMAIN OutputsOf("b")[1]
    /\ DOMAIN OutputsOf("b")[2] = {"done"}

SimpleCycle ==
    CycleScenario =>
        /\ Cardinality(InvocationsOf("a")) = 2
        /\ Cardinality(InvocationsOf("b")) = 2
        /\ \A i \in InvocationsOf("a") \cup InvocationsOf("b") :
              invoked[i].where = "sub" /\ i <= 4 /\ ~stream[i].final
        /\ Cardinality(InvocationsOf("c")) <= 1
        /\ \A i \in InvocationsOf("c") :
              /\ i = 5 /\ invoked[i].where = "main"
              /\ invoked[i].inputs = [in |-> OutputsOf("b")[2]["done"]]
        /\ err.kind # "none" => err.comp = "c" /\ Last(invoked).outcome # "returned"
        /\ Terminated =>
              /\ Len(stream) = 6
              /\ Len(OutputsOf("c")) = 1
              /\ "c" \in DOMAIN Last(stream).d
              /\ Last(stream).d["c"] = OutputsOf("c")[1]

SimpleCycleWitness ==
    /\ CycleScenario
    /\ pc = "done"
    /\ DOMAIN Last(stream).d["c"] = {"out"}

(***************************************************************************)
(* C20: linear chain.  For hello -> hello2 with input for hello.word, a    *)
(* run that ends has streamed exactly three items: the output of hello,    *)
(* the output of hello2 and the terminal map holding hello2 only; hello    *)
(* got the user's word, hello2 the output of hello, each ran once.         *)
(***************************************************************************)
LinearScenario ==
    G.comps = {"hello", "hello2"} /\ validate_input(graph, data) = "ok"

LinearChain ==
    LinearScenario /\ Terminated =>
        /\ Len(stream) = 3
        /\ ~stream[1].final /\ DOMAIN stream[1].d = {"hello"}
        /\ ~stream[2].final /\ DOMAIN stream[2].d = {"hello2"}
        /\ stream[3].final /\ stream[3].d = stream[2].d
        /\ "hello" \notin DOMAIN stream[3].d
        /\ DOMAIN stream[3].d["hello2"] = {"output"}
        /\ Len(invoked) = 2
        /\ invoked[1].name = "hello" /\ invoked[1].inputs = [word |-> UserValue]
        /\ invoked[2].name = "hello2"
        /\ invoked[2].inputs = [word |-> stream[1].d["hello"]["output"]]
        /\ visits = [c \in Comps |-> 1]
        /\ warnings = <<>>

LinearChainWitness ==
    /\ LinearScenario
    /\ pc = "done"
    /\ previous_visits # visits
    /\ Len(stream) = 3

\* the invocations made by the cycle sub-scheduler
SubInvocations == {i \in DOMAIN invoked : invoked[i].where = "sub"}

\* some key of res is an output socket wired to a member of the cycle
FeedsCycle(name, res, cycle) ==
    \E i \in DOMAIN G.edges :
        /\ G.edges[i].from = name
        /\ G.edges[i].fs \in DOMAIN res
        /\ InSeq(G.edges[i].to, cycle)

(***************************************************************************)
(* C21: the cycle sub-scheduler stops right after the first invocation of  *)
(* a member of the cycle whose result has no output socket with a receiver *)
(* inside the cycle: the stop flag is raised by exactly such a result,     *)
(* once it is raised no component is invoked and the next step returns to  *)
(* the outer loop, and the sub-scheduler returns only with the flag        *)
(* raised or after the stuck-loop break (or it ends in an error).          *)
(***************************************************************************)
SubStopsAtFirstExit ==
    [][/\ (pc = "sub_yield" /\ pc' = "sub") =>
              (sub'.cri <=> ~FeedsCycle(cur.name, cur.res, sub.cycle))
       /\ (pc = "sub" /\ sub.cri) => (invoked' = invoked /\ ~sub'.active)
       /\ (sub.active /\ ~sub'.active) => (sub.cri \/ sub.brk)]_vars

SubStopsAtFirstExitWitness ==
    /\ pc = "main"
    /\ ~sub.active
    /\ Cardinality(SubInvocations) >= 3
    /\ \E i \in SubInvocations : i = Len(invoked) /\ i = Len(stream)
    /\ ~FeedsCycle(Last(invoked).name, Last(stream).d[Last(invoked).name],
                   G.cycles[Last(invoked).name][1])
    /\ warnings = <<>>

\* the cycle rotated so that name is its head
Rotated(cycle, name) ==
    [k \in 1..Len(cycle) |->
        cycle[((Index(cycle, name) + k - 2) % Len(cycle)) + 1]]

\* the step that enters the cycle sub-scheduler
EntersSubgraph == pc = "main" /\ pc' = "sub" /\ sub'.active /\ ~sub.active

(***************************************************************************)
(* C22 as stated: when the sub-scheduler is entered for a cycle at         *)
(* component_name, its initial run queue is the cycle rotated so that      *)
(* component_name is the head; it holds every member exactly once.         *)
(***************************************************************************)
SubQueueIsRotatedCycle ==
    [][EntersSubgraph =>
          /\ sub'.rq = Rotated(sub'.cycle, Head(run_queue))
          /\ Names(sub'.rq) = Names(sub'.cycle)]_vars

(***************************************************************************)
(* C22 amended: the initial run queue of the sub-scheduler is the part of  *)
(* the cycle list from component_name to its end, in the list's order: it  *)
(* starts with component_name and holds each member listed after it once;  *)
(* the members listed before component_name are not in it.                 *)
(***************************************************************************)
SubQueueIsCycleSuffix ==
    [][EntersSubgraph =>
          LET name == Head(run_queue)
              cycle == sub'.cycle
              start == Index(cycle, name)
          IN /\ Len(sub'.rq) = Len(cycle) - start + 1
             /\ \A k \in DOMAIN sub'.rq : sub'.rq[k] = cycle[start + k - 1]
             /\ sub'.rq[1] = name
             /\ \A k \in 1..(start - 1) : ~InSeq(cycle[k], sub'.rq)]_vars

SubQueueWitness ==
    /\ pc = "sub" /\ sub.active
    /\ SubInvocations = {}
    /\ Len(sub.cycle) > 1
    /\ sub.rq = <<sub.cycle[Len(sub.cycle)]>>

\* the invocations made by the sub-scheduler that is running
ThisSubSchedule == {i \in SubInvocations : i >= sub.first}

\* the socket the edge leads to holds the value v
Received(inp, e, v) ==
    /\ e.ts \in DOMAIN inp[e.to]
    /\ IF G.ins[e.to][e.ts].is_variadic THEN InSeq(v, inp[e.to][e.ts])
       ELSE inp[e.to][e.ts] = v

(***************************************************************************)
(* C23: when the sub-scheduler returns, every value that a member of the   *)
(* cycle produced during this sub-schedule on an output socket with a      *)
(* receiver outside the cycle is in the final item (subgraph_outputs) and  *)
(* the outer loop writes it into that receiver's input socket, also when   *)
(* the producer ran again in a later iteration.                            *)
(***************************************************************************)
OutsideValuesSurface ==
    [][(sub.active /\ ~sub'.active) =>
          \A i \in ThisSubSchedule :
              invoked[i].outcome = "returned" =>
                  \A k \in DOMAIN G.edges :
                      LET e == G.edges[k]
                          p == invoked[i].name
                          res == stream[i].d[p]
                      IN (e.from = p /\ ~InSeq(e.to, sub.cycle)
                                     /\ e.fs \in DOMAIN res) =>
                            /\ p \in DOMAIN sub.outs
                            /\ e.fs \in DOMAIN sub.outs[p]
                            /\ sub.outs[p][e.fs] = res[e.fs]
                            /\ Received(components_inputs', e, res[e.fs])]_vars

\* the input sockets of c into which the output res of name is distributed
FedBy(name, res, c) ==
    {G.edges[k].ts : k \in {j \in DOMAIN G.edges :
                                /\ G.edges[j].from = name
                                /\ G.edges[j].to = c
                                /\ G.edges[j].fs \in DOMAIN res}}

\* the entry of socket s of component c is the same in both stores
SameEntry(old, new, c, s) ==
    /\ (s \in DOMAIN old[c]) <=> (s \in DOMAIN new[c])
    /\ s \in DOMAIN old[c] => old[c][s] = new[c][s]

\* the progress check that closes the iteration picked c out of the waiting
\* queue and filled the absent socket s of c with its default
DefaultFilled(old, new, rq, c, s) ==
    /\ rq = <<c>>
    /\ ~G.ins[c][s].is_mandatory
    /\ s \notin DOMAIN old[c]
    /\ s \in DOMAIN new[c]
    /\ new[c][s] = DefaultValue

(***************************************************************************)
(* C24: after a plain run of component name in the main loop the Input     *)
(* Store holds no entry for the input sockets of name that have senders    *)
(* and still holds, unchanged, the entry of every input socket of name     *)
(* without senders; the entries of the other components change only in     *)
(* the sockets that receive the output of name (and, when the iteration    *)
(* ends in the progress check, in the defaults given to the component it   *)
(* moves from the waiting queue to the run queue).                         *)
(***************************************************************************)
PlainRunConsumesInputs ==
    [][(pc = "main_yield" /\ pc' # "main_yield") =>
          LET name == cur.name
          IN /\ \A s \in DOMAIN G.ins[name] :
                    IF G.ins[name][s].senders # {}
                    THEN s \notin DOMAIN components_inputs'[name]
                    ELSE /\ s \in DOMAIN components_inputs'[name]
                         /\ SameEntry(components_inputs, components_inputs',
                                      name, s)
             /\ \A c \in Comps \ {name} : \A s \in DOMAIN G.ins[c] :
                    \/ SameEntry(components_inputs, components_inputs', c, s)
                    \/ s \in FedBy(name, cur.res, c)
                    \/ DefaultFilled(components_inputs, components_inputs',
                                     run_queue', c, s)]_vars

PlainRunConsumesInputsWitness ==
    /\ pc = "main"
    /\ Len(invoked) >= 2
    /\ Last(invoked).where = "main"
    /\ Last(invoked).outcome = "returned"
    /\ \E s \in DOMAIN Last(invoked).inputs :
          /\ G.ins[Last(invoked).name][s].senders # {}
          /\ s \notin DOMAIN components_inputs[Last(invoked).name]
    /\ \E i \in DOMAIN invoked : \E s \in DOMAIN invoked[i].inputs :
          /\ invoked[i].where = "main"
          /\ G.ins[invoked[i].name][s].senders = {}
          /\ s \in DOMAIN components_inputs[invoked[i].name]
          /\ components_inputs[invoked[i].name][s] = invoked[i].inputs[s]

\* socket s of component c has senders and all of them are in the cycle
AllSendersInCycle(c, s, cycle) ==
    /\ G.ins[c][s].senders # {}
    /\ \A sender \in G.ins[c][s].senders : InSeq(sender, cycle)

(***************************************************************************)
(* C25: inside the cycle sub-scheduler, after a component has run, the     *)
(* entry of one of its input sockets is deleted from the Input Store if    *)
(* and only if the socket has a sender and all its senders are members of  *)
(* the cycle; the entry of a socket without sender, or with a sender       *)
(* outside the cycle, is kept as it is.  (A socket the component feeds     *)
(* itself is written again by the distribution of the same iteration.)     *)
(***************************************************************************)
CycleRunConsumesInputs ==
    [][(pc = "sub_yield" /\ pc' # "sub_yield") =>
          LET name == cur.name
          IN \A s \in DOMAIN G.ins[name] :
                IF pc' # "error" /\ s \in FedBy(name, cur.res, name)
                THEN s \in DOMAIN components_inputs'[name]
                ELSE IF AllSendersInCycle(name, s, sub.cycle)
                THEN s \notin DOMAIN components_inputs'[name]
                ELSE /\ s \in DOMAIN components_inputs'[name]
                     /\ SameEntry(components_inputs, components_inputs',
                                  name, s)]_vars

CycleRunConsumesInputsWitness ==
    /\ pc = "sub"
    /\ Len(invoked) > 0
    /\ Last(invoked).where = "sub"
    /\ Last(invoked).outcome = "returned"
    /\ \E s \in DOMAIN Last(invoked).inputs :
          /\ AllSendersInCycle(Last(invoked).name, s, sub.cycle)
          /\ s \notin DOMAIN components_inputs[Last(invoked).name]
    /\ \E i \in ThisSubSchedule : \E s \in DOMAIN invoked[i].inputs :
          /\ \E sender \in G.ins[invoked[i].name][s].senders :
                ~InSeq(sender, sub.cycle)
          /\ \E sender \in G.ins[invoked[i].name][s].senders :
                InSeq(sender, sub.cycle)
          /\ s \in DOMAIN components_inputs[invoked[i].name]

VariadicSockets(c) == {s \in DOMAIN G.ins[c] : G.ins[c][s].is_variadic}

\* the invocations of c that were passed the element v on socket s
InvocationsGiven(c, s, v) ==
    {j \in InvocationsOf(c) :
        s \in DOMAIN invoked[j].inputs /\ InSeq(v, invoked[j].inputs[s])}

\* the elements passed to c on socket s over all its invocations
ElementsGiven(c, s) ==
    UNION {Names(invoked[j].inputs[s]) :
              j \in {k \in InvocationsOf(c) : s \in DOMAIN invoked[k].inputs}}

(***************************************************************************)
(* C26: when an invocation has returned, every variadic input socket that  *)
(* was passed to it holds the empty sequence in the Input Store, and an    *)
(* element a component received on a variadic socket was passed to exactly *)
(* one of its invocations: no later invocation sees it again.              *)
(***************************************************************************)
VariadicInputsReset ==
    /\ pc \in {"main_yield", "sub_yield"} =>
          \A s \in VariadicSockets(cur.name) :
              /\ s \in DOMAIN components_inputs[cur.name]
              /\ components_inputs[cur.name][s] = <<>>
    /\ \A c \in Comps : \A s \in VariadicSockets(c) :
          \A v \in ElementsGiven(c, s) :
              Cardinality(InvocationsGiven(c, s, v)) = 1

VariadicInputsResetWitness ==
    /\ pc = "done"
    /\ \E c \in Comps : \E s \in VariadicSockets(c) :
          /\ Cardinality(InvocationsOf(c)) >= 2
          /\ Cardinality(ElementsGiven(c, s)) >= 3
          /\ \E sender \in G.ins[c][s].senders : G.cycles[sender] = <<>>
          /\ G.cycles[c] # <<>>

\* the step that carries out the set-up of AsyncPipeline.run on valid data
SetsUp == pc = "created" /\ pc' = "main"

(***************************************************************************)
(* C27: after the pre-run setup, for every input socket without senders    *)
(* the Input Store holds the user's value when the user gave one and the   *)
(* declared default otherwise (a one-element sequence when the socket is   *)
(* variadic); a socket absent from the Input Store has a sender, and no    *)
(* default is pre-filled into a socket that has a sender.                  *)
(***************************************************************************)
DefaultsInitialised ==
    [][SetsUp =>
          \A c \in Comps : \A s \in DOMAIN G.ins[c] :
              LET sock == G.ins[c][s]
                  present == s \in DOMAIN components_inputs'[c]
                  holds(v) ==
                      /\ present
                      /\ components_inputs'[c][s] =
                            (IF sock.is_variadic THEN <<v>> ELSE v)
              IN /\ (sock.senders = {} /\ <<c, s>> \in data) => holds(UserValue)
                 /\ (sock.senders = {} /\ <<c, s>> \notin data) =>
                        holds(DefaultValue)
                 /\ ~present => sock.senders # {}
                 /\ (sock.senders # {} /\ <<c, s>> \notin data) => ~present]_vars

DefaultsInitialisedWitness ==
    /\ pc = "main" /\ invoked = <<>> /\ run_queue = G.topo
    /\ waiting_queue = <<>>
    /\ \E c \in Comps :
          /\ \E s \in DOMAIN G.ins[c] :
                /\ G.ins[c][s].senders = {} /\ <<c, s>> \notin data
                /\ G.ins[c][s].is_variadic
                /\ components_inputs[c][s] = <<DefaultValue>>
          /\ \E s \in DOMAIN G.ins[c] :
                /\ G.ins[c][s].senders = {} /\ <<c, s>> \notin data
                /\ ~G.ins[c][s].is_variadic
                /\ components_inputs[c][s] = DefaultValue
          /\ \E s \in DOMAIN G.ins[c] :
                /\ ~G.ins[c][s].is_mandatory /\ <<c, s>> \in data
                /\ components_inputs[c][s] = <<UserValue>>

\* the step emits the stuck-loop warning of the given loop
Warns(origin) ==
    Len(warnings') = Len(warnings) + 1 /\ Last(warnings') = origin

\* the step ends the iteration of the main loop in which a component ran,
\* or the one that drove the sub-scheduler
MainRanSomething ==
    \/ pc = "main_yield" /\ pc' # "main_yield"
    \/ sub.active /\ ~sub'.active

(***************************************************************************)
(* C28: the stuck-loop warning is emitted only by an iteration that ran no *)
(* component and finds the run queue empty, the waiting queue not empty    *)
(* and both snapshots, taken by earlier iterations, defined and equal.     *)
(* An iteration that ran a component or a cycle leaves the older snapshot  *)
(* undefined, and the older snapshot only ever becomes what the newer one  *)
(* was: two more drains of the run queue come before any stuck break.      *)
(* The same holds for the snapshots of the cycle sub-scheduler.            *)
(***************************************************************************)
StuckOnlyAfterIdleDrains ==
    [][/\ Warns("main") =>
             /\ run_queue' = <<>> /\ waiting_queue' # <<>>
             /\ before_last_waiting_queue.some /\ last_waiting_queue.some
             /\ before_last_waiting_queue.s = last_waiting_queue.s
             /\ invoked' = invoked /\ visits' = visits
             /\ ~MainRanSomething
       /\ Warns("sub") =>
             /\ sub'.rq = <<>> /\ sub'.wq # <<>>
             /\ sub.bl.some /\ sub.l.some /\ sub.bl.s = sub.l.s
             /\ invoked' = invoked /\ visits' = visits
             /\ pc = "sub"
       /\ MainRanSomething => ~before_last_waiting_queue'.some
       /\ (pc = "sub_yield" /\ pc' = "sub") => ~sub'.bl.some
       /\ before_last_waiting_queue'.some =>
             \/ before_last_waiting_queue' = before_last_waiting_queue
             \/ before_last_waiting_queue' = last_waiting_queue
       /\ (sub'.bl.some /\ sub.active) =>
             (sub'.bl = sub.bl \/ sub'.bl = sub.l)]_vars

StuckOnlyAfterIdleDrainsWitness ==
    /\ pc = "done"
    /\ warnings = <<"main">>
    /\ Len(invoked) >= 2
    /\ before_last_waiting_queue.some
    /\ before_last_waiting_queue.s = last_waiting_queue.s

\* the step in which the sub-scheduler yields its final item and the outer
\* loop, having received it, leaves the async for
SubgraphFinishes == sub.active /\ ~sub'.active

(***************************************************************************)
(* C29: the sub-scheduler ends its iteration with the item tagged final,   *)
(* produced once, after its loop has ended by the stop flag or by the      *)
(* stuck-loop break; every item it produces before is the output of the    *)
(* one component that just ran; the aggregated final item is not yielded   *)
(* to the consumer, whose stream grows at that point by nothing, or by     *)
(* the terminal final_outputs when the main loop breaks in the same        *)
(* iteration.                                                              *)
(***************************************************************************)
SubgraphEndsWithFinalItem ==
    [][/\ SubgraphFinishes =>
             /\ pc = "sub" /\ (sub.cri \/ sub.brk)
             /\ sub' = NoSub
             /\ stream' = IF pc' = "done"
                          THEN Append(stream, FinalItem(final_outputs'))
                          ELSE stream
       /\ (sub.active /\ sub'.active /\ stream' # stream) =>
             /\ Len(stream') = Len(stream) + 1
             /\ SubSeq(stream', 1, Len(stream)) = stream
             /\ ~Last(stream').final
             /\ ~Last(stream').shares
             /\ DOMAIN Last(stream').d = {Last(invoked).name}
             /\ Last(invoked').where = "sub"
             /\ ~sub.cri /\ ~sub.brk]_vars

SubgraphEndsWithFinalItemWitness ==
    /\ pc = "done"
    /\ \E i \in DOMAIN warnings : warnings[i] = "sub"
    /\ SubInvocations # {}
    /\ \A i \in DOMAIN stream : stream[i].final <=> i = Len(stream)
    /\ Len(stream) = Len(invoked) + 1

\* the run has ended: the terminal item was yielded or an error was raised
RunEnded == pc \in {"done", "returned", "error"}

PendingSurviveCycle ==
    [][SubgraphFinishes =>
          \A c \in Names(run_queue) :
              ~InSeq(c, sub.cycle) =>
                  InSeq(c, run_queue') \/ InSeq(c, waiting_queue')]_vars


(***************************************************************************)
(* C32: the cycle sub-scheduler never pops from an empty run queue: in     *)
(* every reachable state at the top of its loop with cycle_received_inputs *)
(* False (and the loop not left by the break), its run queue is non-empty. *)
(***************************************************************************)
SubNeverPopsEmpty ==
    (pc = "sub" /\ ~sub.cri /\ ~sub.brk) => Len(sub.rq) > 0

\* the sub-scheduler is back at the top of its loop after a member of the
\* cycle ran and fed the cycle, with a lazy-variadic member deferred
SubNeverPopsEmptyWitness ==
    /\ pc = "sub" /\ ~sub.cri /\ ~sub.brk
    /\ Len(invoked) >= sub.first
    /\ \E c \in Names(sub.wq) : is_lazy_variadic(c)
    /\ Len(sub.rq) > 0


(***************************************************************************)
(* C33: an input socket without senders that holds the value given by the  *)
(* user (or its default) is passed the same value at every invocation of   *)
(* its component within one run, variadic or not.                          *)
(***************************************************************************)
UserInputsStable ==
    \A i, j \in DOMAIN invoked :
        (i < j /\ invoked[i].name = invoked[j].name) =>
            \A s \in DOMAIN invoked[i].inputs :
                G.ins[invoked[i].name][s].senders = {} =>
                    /\ s \in DOMAIN invoked[j].inputs
                    /\ invoked[j].inputs[s] = invoked[i].inputs[s]

====
